---- MODULE Spec2Model ----
(***************************************************************************)
(* A model of the StarCraft II Copilot core:                               *)
(*   - ReminderEngine (src/src/ReminderEngine.py): cooldown-gated          *)
(*     advisories, the emission primitive and the reminder history;        *)
(*   - OCRAnalysis (src/src/OCR_Analysis.py): text parsing, the cache of   *)
(*     last known readings and the snapshot built by get_game_state.       *)
(* Texts are sequences of one-character strings.  The wall clock           *)
(* (time.time(), datetime.now()) is an environment variable that never     *)
(* decreases; every call reads it once.                                    *)
(***************************************************************************)
EXTENDS Integers, Sequences, FiniteSets, TLC

VARIABLES
    enable_notifications,   \* ReminderEngine.enable_notifications
    reminder_history,       \* ReminderEngine.reminder_history
    cooldowns,              \* ReminderEngine.cooldowns (a dict: key -> time)
    clock,                  \* the wall clock read by time.time()
    emitted,                \* ghost: <<key, time>> of every advisory returned
                            \*        since the last clear_cooldowns
    nEmit,                  \* ghost: advisories returned since construction
    last,                   \* ghost: the last engine call, its inputs and outcome
    last_known_state,       \* OCRAnalysis.last_known_state
    populated,              \* ghost: the regions a successful parse has cached
    snap                    \* ghost: the last get_game_state call and its result

engineVars == <<enable_notifications, reminder_history, cooldowns, clock,
                emitted, nEmit, last>>
ocrVars == <<last_known_state, populated, snap>>
vars == <<enable_notifications, reminder_history, cooldowns, clock,
          emitted, nEmit, last, last_known_state, populated, snap>>

----------------------------------------------------------------------------
(* Bounds of the model.                                                    *)

\* The engine is followed until this many advisories were returned.
MaxEmit == 2

----------------------------------------------------------------------------
(* Program constants.                                                      *)

default_cooldown == 30
\* supply thresholds 0.85 and 0.95, as hundredths
supply_warning_threshold == 85
supply_critical_threshold == 95
resource_overflow_threshold == 1000
ResourceGate == 180
WaveWarnWindow == 30

None == "None"

upgrade_timings == <<300, 480, 720>>
amon_attack_wave_intervals == <<240, 480, 720, 960>>

UpgradeMessage(t) ==
    CASE t = 300 -> "Consider starting +1 attack/armor upgrades"
      [] t = 480 -> "Time for +2 upgrades if +1 is done"
      [] t = 720 -> "Consider +3 upgrades if +2 is complete"

\* f"upgrade_{timing}"
UpgradeKey(t) ==
    CASE t = 300 -> "upgrade_300"
      [] t = 480 -> "upgrade_480"
      [] t = 720 -> "upgrade_720"

\* f"amon_wave_{i}", i the 0-based index of enumerate()
WaveKey(i) ==
    CASE i = 0 -> "amon_wave_0"
      [] i = 1 -> "amon_wave_1"
      [] i = 2 -> "amon_wave_2"
      [] i = 3 -> "amon_wave_3"

Phases == {"early", "mid", "late"}

\* f"commander_tip_{game_phase}"
TipKey(p) ==
    CASE p = "early" -> "commander_tip_early"
      [] p = "mid" -> "commander_tip_mid"
      [] p = "late" -> "commander_tip_late"
      [] OTHER -> "commander_tip_other"

Keys == {"supply_critical", "supply_warning", "mineral_overflow", "gas_overflow",
         "worker_production"}
        \cup {UpgradeKey(upgrade_timings[i]) : i \in 1..Len(upgrade_timings)}
        \cup {WaveKey(i) : i \in 0..(Len(amon_attack_wave_intervals) - 1)}
        \cup {TipKey(p) : p \in Phases}

\* worker_ideal_count.get(game_phase, 22)
worker_ideal_count(p) ==
    CASE p = "early" -> 16
      [] p = "mid" -> 22
      [] p = "late" -> 24
      [] OTHER -> 22

\* the hard-coded tips table of get_commander_tip
TipCommanders == {"Raynor", "Kerrigan"}
Tip(c, p) == <<c, p>>

\* A message f"...{a}...{b}" is the triple of its text and its two values.
Msg(text, a, b) == <<text, a, b>>

----------------------------------------------------------------------------
(* ReminderEngine.  An engine value e is the mutable part of the object    *)
(* during one call: e.cd the cooldown table, e.hist the history, e.calls   *)
(* the titles handed to notification.notify during the call, e.exc whether *)
(* an exception is propagating out of the call.                            *)

\* F applied to the value of v (v is evaluated once)
Bind(v, F(_)) == CHOOSE y \in {F(x) : x \in {v}} : TRUE

EmptyTable == [k \in {} |-> 0]

Put(cd, k, v) == [x \in (DOMAIN cd) \cup {k} |-> IF x = k THEN v ELSE cd[x]]

\* _can_send_reminder forgetting to stamp the key
can_send_reminder_NoStamp(cd, k, now) ==
    IF k \in DOMAIN cd /\ now - cd[k] < default_cooldown
    THEN [ok |-> FALSE, cd |-> cd]
    ELSE [ok |-> TRUE, cd |-> cd]

\* _can_send_reminder with `<=` for its `<`: a key is still refused exactly
\* default_cooldown seconds after it fired
can_send_reminder_Inclusive(cd, k, now) ==
    IF k \in DOMAIN cd /\ now - cd[k] <= default_cooldown
    THEN [ok |-> FALSE, cd |-> cd]
    ELSE [ok |-> TRUE, cd |-> Put(cd, k, now)]

\* _can_send_reminder stamping the key on a refusal as well
can_send_reminder_Restamp(cd, k, now) ==
    IF k \in DOMAIN cd /\ now - cd[k] < default_cooldown
    THEN [ok |-> FALSE, cd |-> Put(cd, k, now)]
    ELSE [ok |-> TRUE, cd |-> Put(cd, k, now)]

\* _can_send_reminder refusing a key for good once it has fired
can_send_reminder_Once(cd, k, now) ==
    IF k \in DOMAIN cd
    THEN [ok |-> FALSE, cd |-> cd]
    ELSE [ok |-> TRUE, cd |-> Put(cd, k, now)]

\* _can_send_reminder: its answer and the cooldown table it leaves
can_send_reminder(cd, k, now) ==
    IF k \in DOMAIN cd /\ now - cd[k] < default_cooldown
    THEN [ok |-> FALSE, cd |-> cd]
    ELSE [ok |-> TRUE, cd |-> Put(cd, k, now)]

HistoryRecord(now, title, message, urgency) ==
    [timestamp |-> now, type |-> title, message |-> message, urgency |-> urgency]

\* _send_notification without its try/except: the collaborator's exception
\* leaves the method before the history is written
send_notification_NoCatch(e, title, message, urgency, now, fails) ==
    IF ~enable_notifications
    THEN e
    ELSE IF title \in fails
         THEN [e EXCEPT !.calls = Append(@, title), !.exc = TRUE]
         ELSE [e EXCEPT !.calls = Append(@, title),
                        !.hist = Append(@, HistoryRecord(now, title, message, urgency))]

\* _send_notification putting the new record in front of the history
send_notification_Prepend(e, title, message, urgency, now, fails) ==
    IF ~enable_notifications
    THEN e
    ELSE [e EXCEPT !.calls = Append(@, title),
                   !.hist = <<HistoryRecord(now, title, message, urgency)>> \o @]

\* _send_notification: returns at once when notifications are disabled;
\* otherwise calls notify (which raises for the titles in fails), catches and
\* logs whatever it raises, and appends the record to the history
send_notification(e, title, message, urgency, now, fails) ==
    IF ~enable_notifications
    THEN e
    ELSE [e EXCEPT !.calls = Append(@, title),
                   !.hist = Append(@, HistoryRecord(now, title, message, urgency))]

\* the result of a check: the engine it leaves, what it returns and the keys
\* of the advisories it returned (nothing when an exception left it)
Result(e, ret, keys) ==
    [e |-> e, ret |-> IF e.exc THEN None ELSE ret,
     keys |-> IF e.exc THEN <<>> ELSE keys]

\* `if self._can_send_reminder(key): self._send_notification(...); return ret`
\* and the fall through to `orelse` when the gate stays shut
Fire(e, key, title, message, urgency, ret, now, fails, orelse) ==
    Bind(can_send_reminder(e.cd, key, now), LAMBDA g :
        IF g.ok
        THEN Bind(send_notification([e EXCEPT !.cd = g.cd], title, message, urgency,
                                    now, fails),
                  LAMBDA e2 : Result(e2, ret, <<key>>))
        ELSE [e |-> [e EXCEPT !.cd = g.cd], ret |-> orelse, keys |-> <<>>])

\* ratio >= threshold, the threshold in hundredths (cap > 0)
RatioAtLeast(used, cap, pct) == used * 100 >= pct * cap

\* check_supply with `if` for its `elif`: a shut critical gate falls through
\* to the warning tier
check_supply_FallThrough(e, used, cap, now, fails) ==
    IF cap = 0 THEN Result(e, None, <<>>)
    ELSE
    Bind(IF RatioAtLeast(used, cap, supply_critical_threshold)
         THEN Fire(e, "supply_critical", "Supply Critical",
                   Msg("SUPPLY BLOCKED", used, cap), "critical",
                   Msg("SUPPLY BLOCKED", used, cap), now, fails, None)
         ELSE Result(e, None, <<>>), LAMBDA c :
    IF c.e.exc \/ c.keys # <<>> THEN c
    ELSE IF RatioAtLeast(used, cap, supply_warning_threshold)
    THEN Fire(c.e, "supply_warning", "Build Supply",
              Msg("Supply Warning", used, cap), "normal",
              Msg("Supply Warning", used, cap), now, fails, None)
    ELSE Result(c.e, None, <<>>))

\* check_supply asking the warning gate before it compares the ratio
check_supply_GateFirst(e, used, cap, now, fails) ==
    IF cap = 0 THEN Result(e, None, <<>>)
    ELSE IF RatioAtLeast(used, cap, supply_critical_threshold)
    THEN Fire(e, "supply_critical", "Supply Critical",
              Msg("SUPPLY BLOCKED", used, cap), "critical",
              Msg("SUPPLY BLOCKED", used, cap), now, fails, None)
    ELSE Bind(can_send_reminder(e.cd, "supply_warning", now), LAMBDA g :
         IF g.ok /\ RatioAtLeast(used, cap, supply_warning_threshold)
         THEN Bind(send_notification([e EXCEPT !.cd = g.cd], "Build Supply",
                                     Msg("Supply Warning", used, cap), "normal", now, fails),
                   LAMBDA e2 : Result(e2, Msg("Supply Warning", used, cap),
                                      <<"supply_warning">>))
         ELSE [e |-> [e EXCEPT !.cd = g.cd], ret |-> None, keys |-> <<>>])

check_supply(e, used, cap, now, fails) ==
    IF cap = 0 THEN Result(e, None, <<>>)
    ELSE IF RatioAtLeast(used, cap, supply_critical_threshold)
    THEN Fire(e, "supply_critical", "Supply Critical",
              Msg("SUPPLY BLOCKED", used, cap), "critical",
              Msg("SUPPLY BLOCKED", used, cap), now, fails, None)
    ELSE IF RatioAtLeast(used, cap, supply_warning_threshold)
    THEN Fire(e, "supply_warning", "Build Supply",
              Msg("Supply Warning", used, cap), "normal",
              Msg("Supply Warning", used, cap), now, fails, None)
    ELSE Result(e, None, <<>>)

\* check_resources with `elif` for its second `if`: gas is looked at only
\* when the minerals are below the threshold
check_resources_Elif(e, minerals, gas, game_time_seconds, now, fails) ==
    IF game_time_seconds < ResourceGate THEN Result(e, <<>>, <<>>)
    ELSE IF minerals > resource_overflow_threshold
    THEN Fire(e, "mineral_overflow", "Resource Alert",
              Msg("High minerals", minerals, 0), "normal",
              <<Msg("High minerals", minerals, 0)>>, now, fails, <<>>)
    ELSE IF gas > resource_overflow_threshold
    THEN Fire(e, "gas_overflow", "Resource Alert",
              Msg("High gas", gas, 0), "normal",
              <<Msg("High gas", gas, 0)>>, now, fails, <<>>)
    ELSE Result(e, <<>>, <<>>)

\* check_resources: the list of messages; the gas check runs on the engine
\* the minerals check left, unless an exception ended the call
check_resources(e, minerals, gas, game_time_seconds, now, fails) ==
    IF game_time_seconds < ResourceGate THEN Result(e, <<>>, <<>>)
    ELSE
    Bind(IF minerals > resource_overflow_threshold
         THEN Fire(e, "mineral_overflow", "Resource Alert",
                   Msg("High minerals", minerals, 0), "normal",
                   <<Msg("High minerals", minerals, 0)>>, now, fails, <<>>)
         ELSE Result(e, <<>>, <<>>), LAMBDA m :
    IF m.e.exc THEN m
    ELSE
    Bind(IF gas > resource_overflow_threshold
         THEN Fire(m.e, "gas_overflow", "Resource Alert",
                   Msg("High gas", gas, 0), "normal",
                   <<Msg("High gas", gas, 0)>>, now, fails, <<>>)
         ELSE Result(m.e, <<>>, <<>>), LAMBDA g :
    IF g.e.exc THEN g
    ELSE [e |-> g.e, ret |-> m.ret \o g.ret, keys |-> m.keys \o g.keys]))

\* worker_count < target_workers * 0.8, in tenths
check_worker_production(e, worker_count, base_count, game_phase, now, fails) ==
    LET target_workers == worker_ideal_count(game_phase) * base_count
    IN IF worker_count * 10 < target_workers * 8
       THEN Fire(e, "worker_production", "Worker Production",
                 Msg("Build workers", worker_count, target_workers), "normal",
                 Msg("Build workers", worker_count, target_workers), now, fails, None)
       ELSE Result(e, None, <<>>)

\* the loop without its `break`
UpgradeBreak_Never(r) == r.e.exc

\* the loop ending at the first timing that has passed, fired or not
UpgradeBreak_Always(r) == TRUE

\* `break  # Only send one upgrade reminder at a time`: the loop ends with
\* the first timing that fires (or with an exception)
UpgradeBreak(r) == r.e.exc \/ r.keys # <<>>

\* the loop of check_upgrade_timing from the i-th timing on: `and` calls
\* _can_send_reminder only for a timing that has passed; the messages of
\* the reminders sent are collected in the order of the scan
RECURSIVE UpgradeScan(_, _, _, _, _)
UpgradeScan(e, i, game_time_seconds, now, fails) ==
    IF i > Len(upgrade_timings) THEN Result(e, <<>>, <<>>)
    ELSE LET timing == upgrade_timings[i]
         IN IF game_time_seconds >= timing
            THEN Bind(Fire(e, UpgradeKey(timing), "Upgrade Reminder",
                           Msg(UpgradeMessage(timing), 0, 0), "normal",
                           <<UpgradeMessage(timing)>>, now, fails, <<>>), LAMBDA r :
                 IF UpgradeBreak(r) THEN r
                 ELSE Bind(UpgradeScan(r.e, i + 1, game_time_seconds, now, fails),
                           LAMBDA rest :
                      IF rest.e.exc THEN rest
                      ELSE [e |-> rest.e, ret |-> r.ret \o rest.ret,
                            keys |-> r.keys \o rest.keys]))
            ELSE UpgradeScan(e, i + 1, game_time_seconds, now, fails)

check_upgrade_timing(e, game_time_seconds, now, fails) ==
    UpgradeScan(e, 1, game_time_seconds, now, fails)

\* the window with its lower end included
InWarnWindow_FromZero(time_until_wave) ==
    0 <= time_until_wave /\ time_until_wave <= WaveWarnWindow

\* `if 0 < time_until_wave <= 30`
InWarnWindow(time_until_wave) ==
    0 < time_until_wave /\ time_until_wave <= WaveWarnWindow

\* the loop of check_amon_attack_wave from wave i (0-based) on; the first
\* warning sent is returned
RECURSIVE WaveScan(_, _, _, _, _)
WaveScan(e, i, game_time_seconds, now, fails) ==
    IF i >= Len(amon_attack_wave_intervals) THEN Result(e, None, <<>>)
    ELSE LET time_until_wave == amon_attack_wave_intervals[i + 1] - game_time_seconds
         IN IF InWarnWindow(time_until_wave)
            THEN LET info == [wave_number |-> i + 1, time_until |-> time_until_wave,
                              message |-> Msg("Attack wave incoming", time_until_wave, 0)]
                 IN Bind(Fire(e, WaveKey(i), "Amon Attack Warning",
                              info.message, "critical", info, now, fails, None), LAMBDA r :
                    IF r.e.exc \/ r.keys # <<>> THEN r
                    ELSE WaveScan(r.e, i + 1, game_time_seconds, now, fails))
            ELSE WaveScan(e, i + 1, game_time_seconds, now, fails)

check_amon_attack_wave(e, game_time_seconds, now, fails) ==
    WaveScan(e, 0, game_time_seconds, now, fails)

\* a cooldown key per commander and phase
TipKeyPerCommander(c, p) ==
    CASE c = "Raynor" /\ p = "early" -> "commander_tip_Raynor_early"
      [] c = "Raynor" /\ p = "mid" -> "commander_tip_Raynor_mid"
      [] c = "Raynor" /\ p = "late" -> "commander_tip_Raynor_late"
      [] c = "Kerrigan" /\ p = "early" -> "commander_tip_Kerrigan_early"
      [] c = "Kerrigan" /\ p = "mid" -> "commander_tip_Kerrigan_mid"
      [] OTHER -> "commander_tip_Kerrigan_late"

\* f"{commander_name} Tip"
TipTitle(c) ==
    CASE c = "Raynor" -> "Raynor Tip"
      [] c = "Kerrigan" -> "Kerrigan Tip"
      [] OTHER -> "Tip"

\* get_commander_tip with a cooldown of its own for every commander
get_commander_tip_PerCommander(e, commander_name, game_phase, now, fails) ==
    IF commander_name \in TipCommanders /\ game_phase \in Phases
    THEN Fire(e, TipKeyPerCommander(commander_name, game_phase), TipTitle(commander_name),
              Msg(Tip(commander_name, game_phase), 0, 0), "normal",
              Tip(commander_name, game_phase), now, fails, None)
    ELSE Result(e, None, <<>>)

get_commander_tip(e, commander_name, game_phase, now, fails) ==
    IF commander_name \in TipCommanders /\ game_phase \in Phases
    THEN Fire(e, TipKey(game_phase), TipTitle(commander_name),
              Msg(Tip(commander_name, game_phase), 0, 0), "normal",
              Tip(commander_name, game_phase), now, fails, None)
    ELSE Result(e, None, <<>>)

----------------------------------------------------------------------------
(* Texts and the string functions the code applies to them.                *)

Digits == {"0", "1", "2", "3", "4", "5", "6", "7", "8", "9"}

DigitVal(c) ==
    CASE c = "0" -> 0 [] c = "1" -> 1 [] c = "2" -> 2 [] c = "3" -> 3
      [] c = "4" -> 4 [] c = "5" -> 5 [] c = "6" -> 6 [] c = "7" -> 7
      [] c = "8" -> 8 [] c = "9" -> 9

\* the value of a non-empty sequence of digits
RECURSIVE DigitsToInt(_)
DigitsToInt(ds) ==
    IF Len(ds) = 0 THEN 0
    ELSE 10 * DigitsToInt(SubSeq(ds, 1, Len(ds) - 1)) + DigitVal(ds[Len(ds)])

AllDigits(t) == \A i \in 1..Len(t) : t[i] \in Digits

\* str.split(sep): the pieces between the separators, empty pieces kept
RECURSIVE SplitFrom(_, _, _, _)
SplitFrom(t, sep, i, piece) ==
    IF i > Len(t) THEN <<piece>>
    ELSE IF t[i] = sep THEN <<piece>> \o SplitFrom(t, sep, i + 1, <<>>)
    ELSE SplitFrom(t, sep, i + 1, Append(piece, t[i]))

Split(t, sep) == SplitFrom(t, sep, 1, <<>>)

\* str.strip() for the blank
RECURSIVE Strip(_)
Strip(t) ==
    IF Len(t) > 0 /\ t[1] = " " THEN Strip(Tail(t))
    ELSE IF Len(t) > 0 /\ t[Len(t)] = " " THEN Strip(SubSeq(t, 1, Len(t) - 1))
    ELSE t

\* int(text): blanks around the literal and one sign are accepted; anything
\* else but digits raises ValueError (ok = FALSE)
PyInt(t) ==
    LET s == Strip(t)
        signed == Len(s) > 0 /\ s[1] \in {"+", "-"}
        ds == IF signed THEN Tail(s) ELSE s
    IN IF Len(ds) > 0 /\ AllDigits(ds)
       THEN [ok |-> TRUE,
             val |-> IF signed /\ s[1] = "-" THEN 0 - DigitsToInt(ds) ELSE DigitsToInt(ds)]
       ELSE [ok |-> FALSE, val |-> 0]

\* the conversion insisting on two minute digits
GameTimeSeconds_TwoMinuteDigits(game_time_str) ==
    LET parts == Split(game_time_str, ":")
    IN IF /\ Len(parts) = 2 /\ Len(parts[1]) = 2
          /\ PyInt(parts[1]).ok /\ PyInt(parts[2]).ok
       THEN PyInt(parts[1]).val * 60 + PyInt(parts[2]).val
       ELSE 0

\* process_game_state's conversion of game_time: `minutes, seconds =
\* map(int, s.split(':'))`; a ValueError (wrong number of pieces, a piece
\* that is no integer) gives 0
GameTimeSeconds(game_time_str) ==
    LET parts == Split(game_time_str, ":")
    IN IF Len(parts) = 2 /\ PyInt(parts[1]).ok /\ PyInt(parts[2]).ok
       THEN PyInt(parts[1]).val * 60 + PyInt(parts[2]).val
       ELSE 0

----------------------------------------------------------------------------
(* process_game_state: the four categories in the order of the code; an    *)
(* exception leaving one of them ends the call.                            *)

NoReminders ==
    [supply |-> <<>>, resources |-> <<>>, workers |-> <<>>, upgrades |-> <<>>,
     attacks |-> <<>>, tips |-> <<>>]

\* process_game_state returning after the first category that fired
process_game_state_Exclusive(e, game_state, now, fails) ==
    LET game_time_seconds == GameTimeSeconds(game_state.game_time)
    IN
    Bind(check_supply(e, game_state.supply.supply_used,
                      game_state.supply.supply_cap, now, fails), LAMBDA s :
    IF s.keys # <<>>
    THEN [e |-> s.e, ret |-> [NoReminders EXCEPT !.supply = <<s.ret>>], keys |-> s.keys]
    ELSE
    Bind(check_resources(s.e, game_state.resources.minerals,
                         game_state.resources.gas, game_time_seconds, now, fails),
         LAMBDA r :
    IF r.keys # <<>>
    THEN [e |-> r.e, ret |-> [NoReminders EXCEPT !.resources = r.ret], keys |-> r.keys]
    ELSE
    Bind(check_upgrade_timing(r.e, game_time_seconds, now, fails), LAMBDA u :
    IF u.keys # <<>>
    THEN [e |-> u.e, ret |-> [NoReminders EXCEPT !.upgrades = u.ret], keys |-> u.keys]
    ELSE
    Bind(IF game_state.mode = "coop"
         THEN check_amon_attack_wave(u.e, game_time_seconds, now, fails)
         ELSE Result(u.e, None, <<>>), LAMBDA w :
    [e |-> w.e,
     ret |-> [NoReminders EXCEPT
                !.attacks = IF w.keys # <<>> THEN <<w.ret.message>> ELSE <<>>],
     keys |-> w.keys]))))

\* process_game_state predicting the waves in every mode
process_game_state_AnyMode(e, game_state, now, fails) ==
    LET game_time_seconds == GameTimeSeconds(game_state.game_time)
        Aborted(x) == [e |-> x.e, ret |-> None, keys |-> <<>>]
    IN
    Bind(check_supply(e, game_state.supply.supply_used,
                      game_state.supply.supply_cap, now, fails), LAMBDA s :
    IF s.e.exc THEN Aborted(s)
    ELSE
    Bind(check_resources(s.e, game_state.resources.minerals,
                         game_state.resources.gas, game_time_seconds, now, fails),
         LAMBDA r :
    IF r.e.exc THEN Aborted(r)
    ELSE
    Bind(check_upgrade_timing(r.e, game_time_seconds, now, fails), LAMBDA u :
    IF u.e.exc THEN Aborted(u)
    ELSE
    Bind(check_amon_attack_wave(u.e, game_time_seconds, now, fails), LAMBDA w :
    IF w.e.exc THEN Aborted(w)
    ELSE [e |-> w.e,
          ret |-> [supply |-> IF s.keys # <<>> THEN <<s.ret>> ELSE <<>>,
                   resources |-> r.ret, workers |-> <<>>, upgrades |-> u.ret,
                   attacks |-> IF w.keys # <<>> THEN <<w.ret.message>> ELSE <<>>,
                   tips |-> <<>>],
          keys |-> s.keys \o r.keys \o u.keys \o w.keys]))))

process_game_state(e, game_state, now, fails) ==
    LET game_time_seconds == GameTimeSeconds(game_state.game_time)
        Aborted(x) == [e |-> x.e, ret |-> None, keys |-> <<>>]
    IN
    Bind(check_supply(e, game_state.supply.supply_used,
                      game_state.supply.supply_cap, now, fails), LAMBDA s :
    IF s.e.exc THEN Aborted(s)
    ELSE
    Bind(check_resources(s.e, game_state.resources.minerals,
                         game_state.resources.gas, game_time_seconds, now, fails),
         LAMBDA r :
    IF r.e.exc THEN Aborted(r)
    ELSE
    Bind(check_upgrade_timing(r.e, game_time_seconds, now, fails), LAMBDA u :
    IF u.e.exc THEN Aborted(u)
    ELSE
    Bind(IF game_state.mode = "coop"
         THEN check_amon_attack_wave(u.e, game_time_seconds, now, fails)
         ELSE Result(u.e, None, <<>>), LAMBDA w :
    IF w.e.exc THEN Aborted(w)
    ELSE [e |-> w.e,
          ret |-> [NoReminders EXCEPT
                     !.supply = IF s.keys # <<>> THEN <<s.ret>> ELSE <<>>,
                     !.resources = r.ret,
                     !.upgrades = u.ret,
                     !.attacks = IF w.keys # <<>> THEN <<w.ret.message>> ELSE <<>>],
          keys |-> s.keys \o r.keys \o u.keys \o w.keys]))))

----------------------------------------------------------------------------
(* The inputs of the engine's calls.                                       *)

\* the instants at which the wall clock is read
TimePoints == {0, default_cooldown - 1, default_cooldown}

\* (supply_used, supply_cap)
SupplyInputs == {<<5, 0>>, <<169, 200>>, <<170, 200>>, <<189, 200>>, <<190, 200>>}
\* (minerals, gas)
ResourceInputs == {<<1000, 800>>, <<1500, 800>>, <<1000, 1001>>, <<1500, 1001>>}
ResourceTimeInputs == {60, 179, 180, 200}
UpgradeTimeInputs == {299, 300, 500, 720}
WaveTimeInputs == {209, 210, 211, 240, 470}
WorkerInputs == {12, 13}
BaseInputs == {1}
WorkerPhaseInputs == {"early"}
PhaseInputs == {"early", "mid", "unknown"}
CommanderInputs == {"Raynor", "Kerrigan", "Artanis"}
ModeInputs == {"coop", None}
\* the snapshots handed to process_game_state
CycleSupplyInputs == {<<100, 200>>, <<190, 200>>}
CycleResourceInputs == {<<1000, 1000>>, <<1500, 800>>}
\* "01:00", "03:30", "08:30" and the unreadable "--:--"
GameTimeInputs ==
    {<<"0", "1", ":", "0", "0">>, <<"0", "3", ":", "3", "0">>,
     <<"0", "8", ":", "3", "0">>, <<"-", "-", ":", "-", "-">>}

Titles == {"Supply Critical", "Build Supply", "Resource Alert", "Worker Production",
           "Upgrade Reminder", "Amon Attack Warning", "Raynor Tip", "Kerrigan Tip"}

\* the titles for which notification.notify raises during a call
FailInputs == {{}, Titles \ {"Resource Alert", "Kerrigan Tip"}}

----------------------------------------------------------------------------
(* The engine as a state machine.                                          *)

Engine == [cd |-> cooldowns, hist |-> reminder_history, calls |-> <<>>, exc |-> FALSE]

\* the record of a call: the operation and its arguments, the time it read,
\* the cooldown table and history it found, what it returned, the keys of
\* the advisories returned, the titles handed to notify, those for which
\* notify raised, and whether an exception left the call
NoCall == [op |-> "idle", args |-> <<>>, now |-> 0, cd |-> EmptyTable, hist |-> <<>>,
           ret |-> None, keys |-> <<>>, calls |-> <<>>, raised |-> {}, exc |-> FALSE]

\* the object after a call that produced r, and the record of the call
Commit(op, args, fails, res) ==
    \E r \in {res} :
    /\ cooldowns' = r.e.cd
    /\ reminder_history' = r.e.hist
    /\ emitted' = emitted \o [i \in 1..Len(r.keys) |-> <<r.keys[i], clock>>]
    /\ nEmit' = nEmit + Len(r.keys)
    /\ last' = [op |-> op, args |-> args, now |-> clock,
                cd |-> cooldowns, hist |-> reminder_history,
                ret |-> r.ret, keys |-> r.keys, calls |-> r.e.calls,
                raised |-> {r.e.calls[i] : i \in 1..Len(r.e.calls)} \cap fails,
                exc |-> r.e.exc]
    /\ UNCHANGED <<enable_notifications, clock>>
    /\ UNCHANGED ocrVars

EngineInit ==
    /\ enable_notifications \in BOOLEAN
    /\ reminder_history = <<>>
    /\ cooldowns = EmptyTable
    /\ clock = 0
    /\ emitted = <<>>
    /\ nEmit = 0
    /\ last = NoCall

\* time passes between two calls
Tick ==
    /\ last.op = "idle" /\ nEmit < MaxEmit
    /\ \E t \in TimePoints : t > clock /\ clock' = t
    /\ UNCHANGED <<enable_notifications, reminder_history, cooldowns, emitted, nEmit,
                   last, ocrVars>>

CheckSupply ==
    /\ last.op = "idle" /\ nEmit < MaxEmit
    /\ \E sup \in SupplyInputs, fails \in FailInputs :
         Commit("check_supply", [supply_used |-> sup[1], supply_cap |-> sup[2]], fails,
                check_supply(Engine, sup[1], sup[2], clock, fails))

CheckResources ==
    /\ last.op = "idle" /\ nEmit < MaxEmit
    /\ \E res \in ResourceInputs, t \in ResourceTimeInputs, fails \in FailInputs :
         Commit("check_resources",
                [minerals |-> res[1], gas |-> res[2], game_time_seconds |-> t],
                fails, check_resources(Engine, res[1], res[2], t, clock, fails))

CheckWorkerProduction ==
    /\ last.op = "idle" /\ nEmit < MaxEmit
    /\ \E w \in WorkerInputs, b \in BaseInputs, p \in WorkerPhaseInputs,
          fails \in FailInputs :
         Commit("check_worker_production",
                [worker_count |-> w, base_count |-> b, game_phase |-> p], fails,
                check_worker_production(Engine, w, b, p, clock, fails))

CheckUpgradeTiming ==
    /\ last.op = "idle" /\ nEmit < MaxEmit
    /\ \E t \in UpgradeTimeInputs, fails \in FailInputs :
         Commit("check_upgrade_timing", [game_time_seconds |-> t], fails,
                check_upgrade_timing(Engine, t, clock, fails))

CheckAmonAttackWave ==
    /\ last.op = "idle" /\ nEmit < MaxEmit
    /\ \E t \in WaveTimeInputs, fails \in FailInputs :
         Commit("check_amon_attack_wave", [game_time_seconds |-> t], fails,
                check_amon_attack_wave(Engine, t, clock, fails))

GetCommanderTip ==
    /\ last.op = "idle" /\ nEmit < MaxEmit
    /\ \E c \in CommanderInputs, p \in PhaseInputs, fails \in FailInputs :
         Commit("get_commander_tip", [commander_name |-> c, game_phase |-> p], fails,
                get_commander_tip(Engine, c, p, clock, fails))

ProcessGameState ==
    /\ last.op = "idle" /\ nEmit < MaxEmit
    /\ \E sup \in CycleSupplyInputs, res \in CycleResourceInputs,
          gt \in GameTimeInputs, mode \in ModeInputs, fails \in FailInputs :
         LET game_state == [resources |-> [minerals |-> res[1], gas |-> res[2]],
                            supply |-> [supply_used |-> sup[1], supply_cap |-> sup[2]],
                            game_time |-> gt, mode |-> mode]
         IN Commit("process_game_state", game_state, fails,
                   process_game_state(Engine, game_state, clock, fails))

\* xs[start:] of a Python list: a negative start counts from the end, and a
\* start beyond either end is clipped
PySliceFrom(xs, start) ==
    LET n == Len(xs)
        from == IF start < 0
                THEN (IF n + start > 0 THEN n + start ELSE 0)
                ELSE (IF start < n THEN start ELSE n)
    IN SubSeq(xs, from + 1, n)

\* get_reminder_history: `self.reminder_history[-limit:]`
get_reminder_history(hist, limit) == PySliceFrom(hist, 0 - limit)

LimitInputs == {0, 1, 2}

GetReminderHistory ==
    /\ last.op = "idle" /\ nEmit < MaxEmit
    /\ \E limit \in LimitInputs :
         last' = [NoCall EXCEPT !.op = "get_reminder_history",
                                !.args = [limit |-> limit], !.now = clock,
                                !.cd = cooldowns, !.hist = reminder_history,
                                !.ret = get_reminder_history(reminder_history, limit)]
    /\ UNCHANGED <<enable_notifications, reminder_history, cooldowns, clock, emitted,
                   nEmit, ocrVars>>

\* clear_cooldowns leaving the table as it is
ClearCooldowns_KeepsTable ==
    /\ last.op = "idle" /\ nEmit < MaxEmit
    /\ emitted' = <<>>
    /\ last' = [NoCall EXCEPT !.op = "clear_cooldowns", !.now = clock,
                              !.cd = cooldowns, !.hist = reminder_history]
    /\ UNCHANGED <<enable_notifications, reminder_history, cooldowns, clock, nEmit,
                   ocrVars>>

\* clear_cooldowns
ClearCooldowns ==
    /\ last.op = "idle" /\ nEmit < MaxEmit
    /\ cooldowns' = EmptyTable
    /\ emitted' = <<>>
    /\ last' = [NoCall EXCEPT !.op = "clear_cooldowns", !.now = clock,
                              !.cd = cooldowns, !.hist = reminder_history]
    /\ UNCHANGED <<enable_notifications, reminder_history, clock, nEmit,
                   ocrVars>>

\* the caller takes the result of the call
Return ==
    /\ last.op # "idle" /\ nEmit < MaxEmit
    /\ last' = NoCall
    /\ UNCHANGED <<enable_notifications, reminder_history, cooldowns, clock, emitted,
                   nEmit, ocrVars>>

----------------------------------------------------------------------------
(* OCRAnalysis.  The text of a region is what extract_text returned for    *)
(* its image; an image the capture did not deliver is absent.              *)

\* extract_numbers: re.findall(r'\d+'), the maximal digit runs as integers
RECURSIVE NumbersFrom(_, _, _)
NumbersFrom(t, i, run) ==
    LET done == IF Len(run) = 0 THEN <<>> ELSE <<DigitsToInt(run)>>
    IN IF i > Len(t) THEN done
       ELSE IF t[i] \in Digits THEN NumbersFrom(t, i + 1, Append(run, t[i]))
       ELSE done \o NumbersFrom(t, i + 1, <<>>)

extract_numbers(t) == NumbersFrom(t, 1, <<>>)

\* ''.join(filter(str.isdigit, part))
FilterDigits(t) == SelectSeq(t, LAMBDA c : c \in Digits)

InitialCache ==
    [minerals |-> 0, gas |-> 0, supply_used |-> 0, supply_cap |-> 0,
     game_time |-> <<"0", "0", ":", "0", "0">>]

\* analyze_resources caching a lone first number
analyze_resources_Partial(cache, text) ==
    LET numbers == extract_numbers(text)
    IN IF Len(numbers) >= 2
       THEN [result |-> [minerals |-> numbers[1], gas |-> numbers[2]],
             cache |-> [cache EXCEPT !.minerals = numbers[1], !.gas = numbers[2]],
             parsed |-> TRUE]
       ELSE IF Len(numbers) = 1
       THEN [result |-> [minerals |-> numbers[1], gas |-> cache.gas],
             cache |-> [cache EXCEPT !.minerals = numbers[1]], parsed |-> FALSE]
       ELSE [result |-> [minerals |-> cache.minerals, gas |-> cache.gas],
             cache |-> cache, parsed |-> FALSE]

\* analyze_resources: the returned dict and the cache it leaves
analyze_resources(cache, text) ==
    LET numbers == extract_numbers(text)
    IN IF Len(numbers) >= 2
       THEN [result |-> [minerals |-> numbers[1], gas |-> numbers[2]],
             cache |-> [cache EXCEPT !.minerals = numbers[1], !.gas = numbers[2]],
             parsed |-> TRUE]
       ELSE [result |-> [minerals |-> cache.minerals, gas |-> cache.gas],
             cache |-> cache, parsed |-> FALSE]

\* analyze_supply taking the first two segments of a text with several "/"
analyze_supply_FirstTwo(cache, text) ==
    LET parts == Split(text, "/")
        ok == /\ Len(parts) >= 2
              /\ Len(FilterDigits(parts[1])) > 0
              /\ Len(FilterDigits(parts[2])) > 0
        supply_used == DigitsToInt(FilterDigits(parts[1]))
        supply_cap == DigitsToInt(FilterDigits(parts[2]))
    IN IF ok
       THEN [result |-> [supply_used |-> supply_used, supply_cap |-> supply_cap],
             cache |-> [cache EXCEPT !.supply_used = supply_used,
                                     !.supply_cap = supply_cap],
             parsed |-> TRUE]
       ELSE [result |-> [supply_used |-> cache.supply_used,
                         supply_cap |-> cache.supply_cap],
             cache |-> cache, parsed |-> FALSE]

\* analyze_supply storing the used count before it converts the cap
analyze_supply_UsedFirst(cache, text) ==
    LET parts == Split(text, "/")
        two == (\E i \in 1..Len(text) : text[i] = "/") /\ Len(parts) = 2
        used_ok == two /\ Len(FilterDigits(parts[1])) > 0
        cap_ok == two /\ Len(FilterDigits(parts[2])) > 0
        supply_used == DigitsToInt(FilterDigits(parts[1]))
        supply_cap == DigitsToInt(FilterDigits(parts[2]))
    IN IF used_ok /\ cap_ok
       THEN [result |-> [supply_used |-> supply_used, supply_cap |-> supply_cap],
             cache |-> [cache EXCEPT !.supply_used = supply_used,
                                     !.supply_cap = supply_cap],
             parsed |-> TRUE]
       ELSE IF used_ok
       THEN [result |-> [supply_used |-> supply_used, supply_cap |-> cache.supply_cap],
             cache |-> [cache EXCEPT !.supply_used = supply_used], parsed |-> FALSE]
       ELSE [result |-> [supply_used |-> cache.supply_used,
                         supply_cap |-> cache.supply_cap],
             cache |-> cache, parsed |-> FALSE]

\* analyze_supply: both int() conversions precede every assignment, so a
\* ValueError of either leaves the result and the cache as they were
analyze_supply(cache, text) ==
    LET parts == Split(text, "/")
        ok == /\ \E i \in 1..Len(text) : text[i] = "/"
              /\ Len(parts) = 2
              /\ Len(FilterDigits(parts[1])) > 0
              /\ Len(FilterDigits(parts[2])) > 0
        supply_used == DigitsToInt(FilterDigits(parts[1]))
        supply_cap == DigitsToInt(FilterDigits(parts[2]))
    IN IF ok
       THEN [result |-> [supply_used |-> supply_used, supply_cap |-> supply_cap],
             cache |-> [cache EXCEPT !.supply_used = supply_used,
                                     !.supply_cap = supply_cap],
             parsed |-> TRUE]
       ELSE [result |-> [supply_used |-> cache.supply_used,
                         supply_cap |-> cache.supply_cap],
             cache |-> cache, parsed |-> FALSE]

\* the length of the match of (\d{1,2}):(\d{2}) that starts at i, 0 if none:
\* two minute digits are tried before one
TimeMatchLen(t, i) ==
    IF /\ i + 4 <= Len(t)
       /\ t[i] \in Digits /\ t[i + 1] \in Digits /\ t[i + 2] = ":"
       /\ t[i + 3] \in Digits /\ t[i + 4] \in Digits
    THEN 5
    ELSE IF /\ i + 3 <= Len(t)
            /\ t[i] \in Digits /\ t[i + 1] = ":"
            /\ t[i + 2] \in Digits /\ t[i + 3] \in Digits
    THEN 4
    ELSE 0

\* re.search: the match at the leftmost position that has one
TimeSearch(t) ==
    LET starts == {i \in 1..Len(t) : TimeMatchLen(t, i) > 0}
    IN IF starts = {} THEN [found |-> FALSE, text |-> <<>>]
       ELSE LET i == CHOOSE j \in starts : \A k \in starts : j <= k
            IN [found |-> TRUE, text |-> SubSeq(t, i, i + TimeMatchLen(t, i) - 1)]

\* analyze_game_time caching the match but returning the string cached before
analyze_game_time_Stale(cache, text) ==
    LET time_match == TimeSearch(text)
    IN IF time_match.found
       THEN [result |-> cache.game_time,
             cache |-> [cache EXCEPT !.game_time = time_match.text], parsed |-> TRUE]
       ELSE [result |-> cache.game_time, cache |-> cache, parsed |-> FALSE]

analyze_game_time(cache, text) ==
    LET time_match == TimeSearch(text)
    IN IF time_match.found
       THEN [result |-> time_match.text,
             cache |-> [cache EXCEPT !.game_time = time_match.text], parsed |-> TRUE]
       ELSE [result |-> cache.game_time, cache |-> cache, parsed |-> FALSE]

\* detect_supply_block with its default threshold 0.9, in hundredths
block_threshold == 90

\* detect_supply_block asking for a ratio above the threshold
detect_supply_block_Strict(supply) ==
    IF supply.supply_cap = 0 THEN FALSE
    ELSE supply.supply_used * 100 > block_threshold * supply.supply_cap

detect_supply_block(supply) ==
    IF supply.supply_cap = 0 THEN FALSE
    ELSE RatioAtLeast(supply.supply_used, supply.supply_cap, block_threshold)

\* detect_resource_overflow with its default threshold
overflow_threshold == 1000

detect_resource_overflow(resources) ==
    (IF resources.minerals > overflow_threshold THEN <<"minerals">> ELSE <<>>)
    \o (IF resources.gas > overflow_threshold THEN <<"gas">> ELSE <<>>)

\* f'{res}_overflow'
OverflowFlag(res) ==
    CASE res = "minerals" -> "minerals_overflow"
      [] res = "gas" -> "gas_overflow"

\* the state get_game_state starts from
DefaultState ==
    [resources |-> [minerals |-> 0, gas |-> 0],
     supply |-> [supply_used |-> 0, supply_cap |-> 200],
     game_time |-> <<"0", "0", ":", "0", "0">>,
     warnings |-> <<>>]

Skipped(cache, value) == [result |-> value, cache |-> cache, parsed |-> FALSE]

\* get_game_state: the three regions in the order of the code, each on the
\* cache the one before left; then the warnings
get_game_state(cache, resource_img, supply_img, timer_img) ==
    Bind(IF resource_img.captured
         THEN analyze_resources(cache, resource_img.text)
         ELSE Skipped(cache, DefaultState.resources), LAMBDA r :
    Bind(IF supply_img.captured
         THEN analyze_supply(r.cache, supply_img.text)
         ELSE Skipped(r.cache, DefaultState.supply), LAMBDA s :
    Bind(IF timer_img.captured
         THEN analyze_game_time(s.cache, timer_img.text)
         ELSE Skipped(s.cache, DefaultState.game_time), LAMBDA t :
    LET overflow == detect_resource_overflow(r.result)
    IN [state |-> [resources |-> r.result,
                   supply |-> s.result,
                   game_time |-> t.result,
                   warnings |->
                      (IF detect_supply_block(s.result) THEN <<"supply_block">> ELSE <<>>)
                      \o [i \in 1..Len(overflow) |-> OverflowFlag(overflow[i])]],
        cache |-> t.cache,
        parsed |-> [resources |-> r.parsed, supply |-> s.parsed, timer |-> t.parsed]])))

----------------------------------------------------------------------------
(* The inputs of get_game_state.                                           *)

Image(text) == [captured |-> TRUE, text |-> text]
Absent == [captured |-> FALSE, text |-> <<>>]

\* "1500 800", "800 1500", "12 34", "1500" and the empty text
ResourceTexts ==
    {<<"1", "5", "0", "0", " ", "8", "0", "0">>, <<"8", "0", "0", " ", "1", "5", "0", "0">>,
     <<"1", "2", " ", "3", "4">>, <<"1", "5", "0", "0">>, <<>>}

\* "190/200", "180/200", "179/200", "19O/20", "1/2/3", "190/" and "abc"
SupplyTexts ==
    {<<"1", "9", "0", "/", "2", "0", "0">>, <<"1", "8", "0", "/", "2", "0", "0">>,
     <<"1", "7", "9", "/", "2", "0", "0">>, <<"1", "9", "O", "/", "2", "0">>,
     <<"1", "/", "2", "/", "3">>, <<"1", "9", "0", "/">>, <<"a", "b", "c">>}

\* "08:30 remaining", "3:20", "8:3" and "123:45"
TimerTexts ==
    {<<"0", "8", ":", "3", "0", " ", "r", "e", "m", "a", "i", "n", "i", "n", "g">>,
     <<"3", ":", "2", "0">>, <<"8", ":", "3">>, <<"1", "2", "3", ":", "4", "5">>}

ResourceImages == {Image(t) : t \in ResourceTexts} \cup {Absent}
SupplyImages == {Image(t) : t \in SupplyTexts} \cup {Absent}
TimerImages == {Image(t) : t \in TimerTexts} \cup {Absent}

----------------------------------------------------------------------------
(* The synthesizer as a state machine.                                     *)

NoSnap == [op |-> "idle", resource_img |-> Absent, supply_img |-> Absent,
           timer_img |-> Absent, cache |-> InitialCache,
           populated |-> [resources |-> FALSE, supply |-> FALSE, timer |-> FALSE],
           state |-> DefaultState,
           parsed |-> [resources |-> FALSE, supply |-> FALSE, timer |-> FALSE]]

OcrInit ==
    /\ last_known_state = InitialCache
    /\ populated = [resources |-> FALSE, supply |-> FALSE, timer |-> FALSE]
    /\ snap = NoSnap

\* one call of get_game_state; snap keeps the images, the cache the call
\* found and the regions populated before it
GetGameState ==
    /\ snap.op = "idle"
    /\ \E resource_img \in ResourceImages, supply_img \in SupplyImages,
          timer_img \in TimerImages :
         \E g \in {get_game_state(last_known_state, resource_img, supply_img, timer_img)} :
           /\ last_known_state' = g.cache
           /\ populated' = [x \in DOMAIN populated |-> populated[x] \/ g.parsed[x]]
           /\ snap' = [op |-> "get_game_state", resource_img |-> resource_img,
                       supply_img |-> supply_img, timer_img |-> timer_img,
                       cache |-> last_known_state, populated |-> populated,
                       state |-> g.state, parsed |-> g.parsed]
    /\ UNCHANGED engineVars

\* the caller takes the snapshot
TakeSnapshot ==
    /\ snap.op # "idle"
    /\ snap' = NoSnap
    /\ UNCHANGED <<last_known_state, populated>>
    /\ UNCHANGED engineVars

Init == EngineInit /\ OcrInit

Next ==
    \/ Tick
    \/ CheckSupply
    \/ CheckResources
    \/ CheckWorkerProduction
    \/ CheckUpgradeTiming
    \/ CheckAmonAttackWave
    \/ GetCommanderTip
    \/ ProcessGameState
    \/ GetReminderHistory
    \/ ClearCooldowns
    \/ Return

\* "03:20", "03:30", "03:45", "04:00" and "07:45": before, inside and after
\* the warning window of the first wave, and inside that of the second
CoopGameTimeInputs ==
    {<<"0", "3", ":", "2", "0">>, <<"0", "3", ":", "3", "0">>,
     <<"0", "3", ":", "4", "5">>, <<"0", "4", ":", "0", "0">>,
     <<"0", "7", ":", "4", "5">>}

\* the wall clock advances between two cycles of the main loop
CoopTick ==
    /\ nEmit < MaxEmit
    /\ \E t \in TimePoints : t > clock /\ clock' = t
    /\ UNCHANGED <<enable_notifications, reminder_history, cooldowns, emitted, nEmit,
                   last, ocrVars>>

\* one cycle of a cooperative game: process_game_state on a snapshot whose
\* game time is not before that of the cycle before (last is the record of
\* that cycle)
CoopCycle ==
    /\ nEmit < MaxEmit
    /\ \E sup \in CycleSupplyInputs, res \in CycleResourceInputs,
          gt \in CoopGameTimeInputs, fails \in FailInputs :
         LET game_state == [resources |-> [minerals |-> res[1], gas |-> res[2]],
                            supply |-> [supply_used |-> sup[1], supply_cap |-> sup[2]],
                            game_time |-> gt, mode |-> "coop"]
         IN /\ last.op = "process_game_state" =>
                  GameTimeSeconds(gt) >= GameTimeSeconds(last.args.game_time)
            /\ Commit("process_game_state", game_state, fails,
                      process_game_state(Engine, game_state, clock, fails))

NextCoop ==
    \/ CoopTick
    \/ CoopCycle

\* a cooperative game: cycles with non-decreasing game time under a
\* non-decreasing wall clock, the two advancing independently
SpecCoop == Init /\ [][NextCoop]_vars

\* the game_time strings of the snapshots: "08:30", "03:30", "8:5",
\* "123:45", "--:--" and "1:2:3"
SnapshotGameTimeInputs ==
    {<<"0", "8", ":", "3", "0">>, <<"0", "3", ":", "3", "0">>,
     <<"8", ":", "5">>, <<"1", "2", "3", ":", "4", "5">>,
     <<"-", "-", ":", "-", "-">>, <<"1", ":", "2", ":", "3">>}

\* game_state.get('mode'): None when the snapshot carries no mode
SnapshotModeInputs == {"coop", "versus", None}

\* process_game_state on any snapshot a caller can hand over
ProcessSnapshot ==
    /\ last.op = "idle" /\ nEmit < MaxEmit
    /\ \E sup \in CycleSupplyInputs, res \in CycleResourceInputs,
          gt \in SnapshotGameTimeInputs, mode \in SnapshotModeInputs,
          fails \in FailInputs :
         LET game_state == [resources |-> [minerals |-> res[1], gas |-> res[2]],
                            supply |-> [supply_used |-> sup[1], supply_cap |-> sup[2]],
                            game_time |-> gt, mode |-> mode]
         IN Commit("process_game_state", game_state, fails,
                   process_game_state(Engine, game_state, clock, fails))

NextCycle ==
    \/ Tick
    \/ ProcessSnapshot
    \/ Return

\* the engine driven by process_game_state alone
SpecCycle == Init /\ [][NextCycle]_vars

\* the reminder engine under every order of its calls
Spec == Init /\ [][Next]_vars

\* the main loop: `while True:` runs one cycle and sleeps.  The wall clock
\* is followed up to LiveHorizon
LiveHorizon == 90

\* the seconds from one cycle to the next
LiveSteps == {10, 20}

\* (supply_used, supply_cap) of the cycles: the critical predicate holds
LiveSupplyInputs == {<<190, 200>>, <<200, 200>>}

\* the supply check of one cycle of the loop
LiveCycle ==
    /\ last.op = "idle"
    /\ \E sup \in LiveSupplyInputs, fails \in FailInputs :
         Commit("check_supply", [supply_used |-> sup[1], supply_cap |-> sup[2]], fails,
                check_supply(Engine, sup[1], sup[2], clock, fails))

\* the loop takes the result and sleeps until the next cycle
LiveSleep ==
    /\ last.op # "idle"
    /\ \E d \in LiveSteps : clock + d <= LiveHorizon /\ clock' = clock + d
    /\ last' = NoCall
    /\ UNCHANGED <<enable_notifications, reminder_history, cooldowns, emitted, nEmit,
                   ocrVars>>

NextLive ==
    \/ LiveCycle
    \/ LiveSleep

\* the loop never stops cycling, and time.sleep returns
SpecLive ==
    Init /\ [][NextLive]_vars /\ WF_vars(LiveCycle) /\ WF_vars(LiveSleep)

NextOCR ==
    \/ GetGameState
    \/ TakeSnapshot

\* the synthesizer under every sequence of captures
SpecOCR == Init /\ [][NextOCR]_vars

----------------------------------------------------------------------------
(* The claims about the engine and the synthesizer.                        *)

Range(seq) == {seq[i] : i \in 1..Len(seq)}

CheckOps == {"check_supply", "check_resources", "check_upgrade_timing",
             "check_amon_attack_wave", "check_worker_production",
             "get_commander_tip"}

\* the cooldown gate of key k stands open at time now: k never fired, or
\* fired 30 seconds ago or earlier
GateOpen(cd, k, now) == k \notin DOMAIN cd \/ now - cd[k] >= 30

\* the table cd2 differs from cd1 at most in the keys of ks
SameExcept(cd1, cd2, ks) ==
    /\ (DOMAIN cd1) \ ks = (DOMAIN cd2) \ ks
    /\ \A k \in (DOMAIN cd1) \ ks : cd1[k] = cd2[k]

\* C1: without a clear_cooldowns in between, any two advisories returned
\* under the same key are at least 30 wall-clock seconds apart.
C1_OncePerWindow ==
    \A i, j \in 1..Len(emitted) :
        (i < j /\ emitted[i][1] = emitted[j][1]) => emitted[j][2] - emitted[i][2] >= 30

\* C1 witness: a key fired twice, the second time once its window had passed.
C1_Witness ==
    \E i, j \in 1..Len(emitted) :
        i < j /\ emitted[i][1] = emitted[j][1] /\ emitted[j][2] = emitted[i][2] + 30

\* C2 (as claimed): every check that returns advisories leaves the history
\* longer by exactly one record per advisory, whether notifications are
\* enabled or not.
C2_HistoryGrowsOnEveryFiring ==
    last.op \in CheckOps =>
        /\ Len(reminder_history) = Len(last.hist) + Len(last.keys)
        /\ SubSeq(reminder_history, 1, Len(last.hist)) = last.hist

\* the number of maximal digit runs of a text
DigitRuns(t) ==
    Cardinality({i \in 1..Len(t) : t[i] \in Digits /\ (i = 1 \/ t[i - 1] \notin Digits)})

\* exactly one "/" with a digit somewhere on each side of it
HasRatio(t) ==
    /\ Cardinality({i \in 1..Len(t) : t[i] = "/"}) = 1
    /\ \E i, j, k \in 1..Len(t) :
          i < j /\ j < k /\ t[i] \in Digits /\ t[j] = "/" /\ t[k] \in Digits

\* a colon with a digit before it and two digits after it
HasTimer(t) ==
    \E i \in 2..Len(t) :
        /\ t[i] = ":" /\ t[i - 1] \in Digits
        /\ i + 2 <= Len(t) /\ t[i + 1] \in Digits /\ t[i + 2] \in Digits

\* the region was captured and its text has no parseable value
ResourceMiss == snap.resource_img.captured /\ DigitRuns(snap.resource_img.text) < 2
SupplyMiss == snap.supply_img.captured /\ ~HasRatio(snap.supply_img.text)
TimerMiss == snap.timer_img.captured /\ ~HasTimer(snap.timer_img.text)

\* C3: a captured region whose text has no parseable value is reported with
\* the values the cache held before the call, and its cache fields are left
\* as they were.
C3_CacheFallbackOnMiss ==
    snap.op = "get_game_state" =>
        /\ ResourceMiss =>
              /\ snap.state.resources =
                    [minerals |-> snap.cache.minerals, gas |-> snap.cache.gas]
              /\ last_known_state.minerals = snap.cache.minerals
              /\ last_known_state.gas = snap.cache.gas
        /\ SupplyMiss =>
              /\ snap.state.supply = [supply_used |-> snap.cache.supply_used,
                                      supply_cap |-> snap.cache.supply_cap]
              /\ last_known_state.supply_used = snap.cache.supply_used
              /\ last_known_state.supply_cap = snap.cache.supply_cap
        /\ TimerMiss =>
              /\ snap.state.game_time = snap.cache.game_time
              /\ last_known_state.game_time = snap.cache.game_time

\* C3 witness: a bad frame of all three regions after a good frame of each.
C3_Witness ==
    /\ snap.op = "get_game_state"
    /\ ResourceMiss /\ SupplyMiss /\ TimerMiss
    /\ snap.populated.resources /\ snap.populated.supply /\ snap.populated.timer
    /\ snap.state.resources.minerals > 0
    /\ snap.state.supply.supply_cap > 0
    /\ snap.state.game_time # InitialCache.game_time

\* C4: in check_supply with cap > 0, at used/cap >= 0.95 only the critical
\* advisory can fire (and does when its gate is open) and the warning key is
\* left alone even while the critical key cools down; at 0.85 <= used/cap <
\* 0.95 only the warning advisory can fire; with cap = 0 nothing fires and
\* nothing changes.
C4_SupplyTiers ==
    last.op = "check_supply" =>
        LET used == last.args.supply_used
            cap == last.args.supply_cap
            fired(k) == IF GateOpen(last.cd, k, last.now) THEN <<k>> ELSE <<>>
        IN /\ cap = 0 =>
                /\ last.keys = <<>> /\ last.calls = <<>>
                /\ cooldowns = last.cd /\ reminder_history = last.hist
           /\ (cap > 0 /\ 100 * used >= 95 * cap) =>
                /\ last.keys = fired("supply_critical")
                /\ SameExcept(last.cd, cooldowns, {"supply_critical"})
                /\ \A i \in 1..Len(last.calls) : last.calls[i] = "Supply Critical"
           /\ (cap > 0 /\ 100 * used >= 85 * cap /\ 100 * used < 95 * cap) =>
                /\ last.keys = fired("supply_warning")
                /\ SameExcept(last.cd, cooldowns, {"supply_warning"})
                /\ \A i \in 1..Len(last.calls) : last.calls[i] = "Build Supply"

\* C4 witness: 190/200 while the critical key cools down and the warning key
\* never fired: the call returns nothing.
C4_Witness ==
    /\ last.op = "check_supply"
    /\ last.args.supply_used = 190 /\ last.args.supply_cap = 200
    /\ "supply_critical" \in DOMAIN last.cd
    /\ ~GateOpen(last.cd, "supply_critical", last.now)
    /\ "supply_warning" \notin DOMAIN cooldowns
    /\ last.keys = <<>>

\* C5: check_resources does nothing while elapsed < 180; from 180 on the
\* mineral advisory fires exactly when minerals > 1000 and its own gate is
\* open, the gas advisory exactly when gas > 1000 and its own gate is open.
C5_ResourceOverflow ==
    last.op = "check_resources" =>
        LET a == last.args
            mineral == a.minerals > 1000 /\ GateOpen(last.cd, "mineral_overflow", last.now)
            gas == a.gas > 1000 /\ GateOpen(last.cd, "gas_overflow", last.now)
        IN /\ a.game_time_seconds < 180 =>
                /\ last.keys = <<>> /\ last.ret = <<>>
                /\ cooldowns = last.cd /\ reminder_history = last.hist
           /\ a.game_time_seconds >= 180 =>
                /\ last.keys = (IF mineral THEN <<"mineral_overflow">> ELSE <<>>)
                               \o (IF gas THEN <<"gas_overflow">> ELSE <<>>)
                /\ Len(last.ret) = Len(last.keys)
                /\ SameExcept(last.cd, cooldowns, Range(last.keys))

\* C5 witness: minerals and gas both above 1000 while the mineral key cools
\* down: the gas advisory fires alone.
C5_Witness ==
    /\ last.op = "check_resources"
    /\ last.args.minerals > 1000 /\ last.args.gas > 1000
    /\ ~GateOpen(last.cd, "mineral_overflow", last.now)
    /\ last.keys = <<"gas_overflow">>

UpgradeKeys == {UpgradeKey(upgrade_timings[i]) : i \in 1..Len(upgrade_timings)}

\* C6: check_upgrade_timing, called directly or by process_game_state,
\* emits at most one upgrade advisory: the one of the lowest threshold that
\* has passed and whose gate is open, if there is one.
C6_OneUpgradePerCycle ==
    last.op \in {"check_upgrade_timing", "process_game_state"} =>
        \A elapsed \in {IF last.op = "check_upgrade_timing"
                         THEN last.args.game_time_seconds
                         ELSE GameTimeSeconds(last.args.game_time)} :
        LET eligible == {t \in {300, 480, 720} :
                            elapsed >= t /\ GateOpen(last.cd, UpgradeKey(t), last.now)}
            sent == SelectSeq(last.keys, LAMBDA k : k \in UpgradeKeys)
        IN IF eligible = {} THEN sent = <<>>
           ELSE sent = <<UpgradeKey(CHOOSE t \in eligible : \A u \in eligible : t <= u)>>

\* C6 witness: at 500 s with the 300 s key cooling down, the 480 s advisory
\* is the one that fires.
C6_Witness ==
    /\ last.op = "check_upgrade_timing"
    /\ last.args.game_time_seconds = 500
    /\ ~GateOpen(last.cd, "upgrade_300", last.now)
    /\ last.keys = <<"upgrade_480">>

\* the 0-based index of the wave a key belongs to
WaveOf(k) == CHOOSE i \in 0..3 : WaveKey(i) = k

\* C7 (as claimed): check_amon_attack_wave fires the warning of wave i only
\* when 0 < wave_time[i] - elapsed < 30.
C7_WaveWindowStrict ==
    last.op = "check_amon_attack_wave" =>
        \A n \in 1..Len(last.keys) :
            LET remaining == amon_attack_wave_intervals[WaveOf(last.keys[n]) + 1]
                             - last.args.game_time_seconds
            IN 0 < remaining /\ remaining < 30

\* C7 (amended): check_amon_attack_wave fires the warning of wave i only
\* when 0 < wave_time[i] - elapsed <= 30 and the gate of amon_wave_i is
\* open, and it returns at most one warning per call.
C7_WaveWindow ==
    last.op = "check_amon_attack_wave" =>
        /\ Len(last.keys) <= 1
        /\ \A n \in 1..Len(last.keys) :
              LET i == WaveOf(last.keys[n])
                  remaining == amon_attack_wave_intervals[i + 1]
                               - last.args.game_time_seconds
              IN /\ last.keys[n] \in {WaveKey(w) : w \in 0..3}
                 /\ 0 < remaining /\ remaining <= 30
                 /\ GateOpen(last.cd, WaveKey(i), last.now)
                 /\ last.ret.wave_number = i + 1
                 /\ last.ret.time_until = remaining

\* C7 witness: the warning fires with exactly 30 seconds remaining.
C7_Witness ==
    /\ last.op = "check_amon_attack_wave"
    /\ last.args.game_time_seconds = 210
    /\ last.keys = <<"amon_wave_0">>
    /\ last.ret.time_until = 30

\* C8 (as claimed): a region whose image is absent, after an earlier
\* successful parse populated its cache, is reported with the cached values,
\* and the cache is unchanged.
C8_AbsentFallsBackToCache ==
    snap.op = "get_game_state" =>
        /\ (~snap.resource_img.captured /\ snap.populated.resources) =>
              /\ snap.state.resources =
                    [minerals |-> snap.cache.minerals, gas |-> snap.cache.gas]
              /\ last_known_state.minerals = snap.cache.minerals
              /\ last_known_state.gas = snap.cache.gas
        /\ (~snap.supply_img.captured /\ snap.populated.supply) =>
              /\ snap.state.supply = [supply_used |-> snap.cache.supply_used,
                                      supply_cap |-> snap.cache.supply_cap]
              /\ last_known_state.supply_used = snap.cache.supply_used
              /\ last_known_state.supply_cap = snap.cache.supply_cap
        /\ (~snap.timer_img.captured /\ snap.populated.timer) =>
              /\ snap.state.game_time = snap.cache.game_time
              /\ last_known_state.game_time = snap.cache.game_time

\* C9 (as claimed): a region whose extraction fails (image absent, or
\* captured but unparseable) while its cache was never populated is
\* reported with the baseline minerals=0, gas=0, supply_used=0,
\* supply_cap=200, game_time="00:00".
C9_BaselineDefaults ==
    snap.op = "get_game_state" =>
        /\ (~snap.parsed.resources /\ ~snap.populated.resources) =>
              snap.state.resources = [minerals |-> 0, gas |-> 0]
        /\ (~snap.parsed.supply /\ ~snap.populated.supply) =>
              snap.state.supply = [supply_used |-> 0, supply_cap |-> 200]
        /\ (~snap.parsed.timer /\ ~snap.populated.timer) =>
              snap.state.game_time = <<"0", "0", ":", "0", "0">>

\* the last call made again on the engine it found, every delivery succeeding
AsIfDelivered ==
    LET e0 == [cd |-> last.cd, hist |-> last.hist, calls |-> <<>>, exc |-> FALSE]
    IN CASE last.op = "process_game_state" ->
              process_game_state(e0, last.args, last.now, {})
         [] last.op = "check_supply" ->
              check_supply(e0, last.args.supply_used, last.args.supply_cap, last.now, {})
         [] last.op = "check_upgrade_timing" ->
              check_upgrade_timing(e0, last.args.game_time_seconds, last.now, {})

\* C10: an exception of the notification collaborator never leaves a check
\* or process_game_state; every notification attempted, delivered or not,
\* has its record in the history; and the call leaves the engine and
\* returns the advisories exactly as it would had every delivery succeeded.
C10_DeliveryFailureNonFatal ==
    last.op \in CheckOps \cup {"process_game_state"} =>
        /\ ~last.exc
        /\ Len(reminder_history) = Len(last.hist) + Len(last.calls)
        /\ \A i \in 1..Len(last.calls) :
              reminder_history[Len(last.hist) + i].type = last.calls[i]
        /\ last.op \in {"process_game_state", "check_supply", "check_upgrade_timing"} =>
              LET delivered == AsIfDelivered
              IN /\ cooldowns = delivered.e.cd
                 /\ reminder_history = delivered.e.hist
                 /\ last.keys = delivered.keys

\* C10 witness: a cycle in which the supply and the upgrade deliveries raise
\* and the mineral advisory between them is still evaluated and delivered.
C10_Witness ==
    /\ last.op = "process_game_state"
    /\ last.raised = {"Supply Critical", "Upgrade Reminder"}
    /\ last.keys = <<"supply_critical", "mineral_overflow", "upgrade_300">>
    /\ Len(reminder_history) = Len(last.hist) + 3
    /\ ~last.exc

\* the checks that look at one state of the game and have a key of their own
\* per predicate
DirectOps == {"check_supply", "check_resources", "check_worker_production",
              "get_commander_tip"}

\* the keys whose triggering predicate holds for the arguments of the last
\* call
Triggered ==
    LET a == last.args
    IN CASE last.op = "check_supply" ->
              IF a.supply_cap > 0 /\ 100 * a.supply_used >= 95 * a.supply_cap
              THEN {"supply_critical"}
              ELSE IF a.supply_cap > 0 /\ 100 * a.supply_used >= 85 * a.supply_cap
              THEN {"supply_warning"}
              ELSE {}
         [] last.op = "check_resources" ->
              {k \in {"mineral_overflow"} : a.game_time_seconds >= 180 /\ a.minerals > 1000}
              \cup {k \in {"gas_overflow"} : a.game_time_seconds >= 180 /\ a.gas > 1000}
         [] last.op = "check_worker_production" ->
              {k \in {"worker_production"} :
                  10 * a.worker_count < 8 * worker_ideal_count(a.game_phase) * a.base_count}
         [] last.op = "get_commander_tip" ->
              {TipKey(a.game_phase) : c \in {a.commander_name} \cap
                  (IF a.game_phase \in Phases THEN TipCommanders ELSE {})}
         [] OTHER -> {}

\* the emissions before the last call (since the last clear_cooldowns)
PriorEmitted == SubSeq(emitted, 1, Len(emitted) - Len(last.keys))

\* key k was emitted less than 30 seconds before the last call
EmittedWithin30(k) ==
    \E n \in 1..Len(PriorEmitted) :
        PriorEmitted[n][1] = k /\ last.now - PriorEmitted[n][2] < 30

\* C11: with notifications enabled and no clear_cooldowns in between, a
\* check whose predicate holds adds no history entry and makes no
\* notification call for a key emitted less than 30 seconds earlier, and
\* adds exactly one history entry with exactly one notification call for a
\* key never emitted or emitted 30 seconds ago or earlier.
C11_CooldownIdempotence ==
    (enable_notifications /\ last.op \in DirectOps) =>
        /\ \A k \in Triggered :
              Cardinality({n \in 1..Len(last.keys) : last.keys[n] = k})
                  = IF EmittedWithin30(k) THEN 0 ELSE 1
        /\ Range(last.keys) \subseteq Triggered
        /\ Len(last.calls) = Len(last.keys)
        /\ Len(reminder_history) = Len(last.hist) + Len(last.keys)

\* C11 witness: the worker advisory fired at 0 and fires again at 30; the
\* history holds exactly those two entries.
C11_Witness ==
    /\ enable_notifications
    /\ last.op = "check_worker_production"
    /\ emitted = <<(<<"worker_production", 0>>), (<<"worker_production", 30>>)>>
    /\ Len(reminder_history) = 2
    /\ \A n \in 1..2 : reminder_history[n].type = "Worker Production"
    /\ reminder_history[1].timestamp = 0 /\ reminder_history[2].timestamp = 30

\* key k last fired less than 30 seconds before the last call
CoolingDown(k) == k \in DOMAIN last.cd /\ last.now - last.cd[k] < 30

\* C12: a key that last fired less than 30 seconds before a call is not
\* among the advisories the call returns and keeps its cooldown timestamp;
\* a check whose predicates hold only for cooling-down keys returns no
\* advisory, makes no notification call and leaves history and cooldown
\* table as they were.
C12_CoolingDownSilent ==
    last.op \in CheckOps \cup {"process_game_state"} =>
        /\ \A k \in Keys :
              CoolingDown(k) =>
                  /\ k \notin Range(last.keys)
                  /\ k \in DOMAIN cooldowns /\ cooldowns[k] = last.cd[k]
        /\ (last.op \in DirectOps /\ Triggered # {}
              /\ \A k \in Triggered : CoolingDown(k)) =>
              /\ last.keys = <<>> /\ last.calls = <<>>
              /\ reminder_history = last.hist
              /\ cooldowns = last.cd

\* C12 witness: minerals above 1000 at 29 s after the mineral advisory
\* fired: the check is silent and the stamp stays at 0.
C12_Witness ==
    /\ last.op = "check_resources"
    /\ Triggered = {"mineral_overflow"}
    /\ last.now = 29
    /\ CoolingDown("mineral_overflow")
    /\ last.keys = <<>> /\ last.calls = <<>>
    /\ cooldowns = last.cd /\ cooldowns["mineral_overflow"] = 0
    /\ reminder_history = last.hist

\* C13 (as claimed): over a run of coop-mode cycles with non-decreasing
\* game time and a non-decreasing wall clock, each wave has at most one
\* advisory emitted under its key.
C13_WaveWarnedOnce ==
    \A i \in 0..(Len(amon_attack_wave_intervals) - 1) :
        Cardinality({n \in 1..Len(emitted) : emitted[n][1] = WaveKey(i)}) <= 1

\* the elapsed game time the upgrade scan of the last call worked with
UpgradeElapsed ==
    IF last.op = "check_upgrade_timing" THEN last.args.game_time_seconds
    ELSE GameTimeSeconds(last.args.game_time)

\* the thresholds that have passed at the last call and are cooling down
UpgradesCoolingDown ==
    LET elapsed == UpgradeElapsed
    IN {t \in Range(upgrade_timings) : elapsed >= t /\ CoolingDown(UpgradeKey(t))}

\* C14 (as claimed): when a threshold whose time has passed is still
\* cooling down, no later threshold's advisory fires in that cycle.
C14_CoolingDownBlocksLater ==
    last.op \in {"check_upgrade_timing", "process_game_state"} =>
        \A t \in UpgradesCoolingDown :
            \A u \in Range(upgrade_timings) :
                u > t => UpgradeKey(u) \notin Range(last.keys)

\* C14 (amended): a threshold that has passed and is cooling down is passed
\* over, keeping its timestamp, and does not block later ones: when every
\* passed threshold below u is cooling down and u has passed with its gate
\* open, the advisory of u fires in that same cycle, and the scan stops there.
C14_CoolingDownPassedOver ==
    last.op \in {"check_upgrade_timing", "process_game_state"} =>
        LET elapsed == UpgradeElapsed
            cooling == UpgradesCoolingDown
        IN \A u \in {300, 480, 720} :
            (/\ elapsed >= u
             /\ ~CoolingDown(UpgradeKey(u))
             /\ \A t \in Range(upgrade_timings) : t < u => t \in cooling) =>
                /\ UpgradeKey(u) \in Range(last.keys)
                /\ cooldowns[UpgradeKey(u)] = last.now
                /\ \A t \in Range(upgrade_timings) \ {u} :
                      /\ UpgradeKey(t) \notin Range(last.keys)
                      /\ t < u => cooldowns[UpgradeKey(t)] = last.cd[UpgradeKey(t)]
                      /\ t > u =>
                            /\ UpgradeKey(t) \in DOMAIN cooldowns
                                  <=> UpgradeKey(t) \in DOMAIN last.cd
                            /\ UpgradeKey(t) \in DOMAIN last.cd =>
                                  cooldowns[UpgradeKey(t)] = last.cd[UpgradeKey(t)]

\* C14 witness: the cycle right after the 300 s advisory fired, at 08:30,
\* emits the 480 s advisory.
C14_Witness ==
    /\ last.op = "process_game_state"
    /\ GameTimeSeconds(last.args.game_time) >= 480
    /\ "upgrade_300" \in DOMAIN last.cd /\ last.cd["upgrade_300"] = last.now
    /\ "upgrade_480" \in Range(last.keys)
    /\ cooldowns["upgrade_300"] = last.cd["upgrade_300"]

\* one or two minute digits, a colon, exactly two second digits
MatchesMMSS(t) ==
    \E m \in 1..2 :
        /\ Len(t) = m + 3
        /\ \A i \in 1..m : t[i] \in Digits
        /\ t[m + 1] = ":" /\ t[m + 2] \in Digits /\ t[m + 3] \in Digits

\* the keys of the categories that depend on the elapsed game time
TimedKeys == {"mineral_overflow", "gas_overflow"} \cup UpgradeKeys
             \cup {WaveKey(i) : i \in 0..(Len(amon_attack_wave_intervals) - 1)}

\* C15 (as claimed): for a game_time that does not match MM:SS,
\* process_game_state does not raise, fires no resource, upgrade or
\* attack-wave advisory and leaves their cooldown keys untouched.
C15_UnparseableMeansZero ==
    (last.op = "process_game_state" /\ ~MatchesMMSS(last.args.game_time)) =>
        /\ ~last.exc
        /\ Range(last.keys) \cap TimedKeys = {}
        /\ SameExcept(last.cd, cooldowns, Keys \ TimedKeys)

\* C16 (as claimed): get_reminder_history(N), N >= 0, returns exactly the
\* last min(N, n) records of a history of length n, in emission order, and
\* does not modify the history.
C16_ReturnsLastN ==
    last.op = "get_reminder_history" =>
        LET N == last.args.limit
            n == Len(last.hist)
            m == IF N < n THEN N ELSE n
        IN /\ Len(last.ret) = m
           /\ last.ret = SubSeq(last.hist, n - m + 1, n)
           /\ reminder_history = last.hist

\* C17: get_commander_tip for a (commander, phase) pair of the table fires
\* exactly when the key of the phase, whichever commander stamped it, did
\* not fire in the last 30 seconds, stamps that key and no other; the keys
\* of the other phases play no part.  For a pair absent from the table it
\* returns nothing and changes neither the cooldown table nor the history.
C17_TipsCooledByPhase ==
    last.op = "get_commander_tip" =>
        LET c == last.args.commander_name
            p == last.args.game_phase
        IN IF c \in {"Raynor", "Kerrigan"} /\ p \in {"early", "mid", "late"}
           THEN /\ last.keys = IF GateOpen(last.cd, TipKey(p), last.now)
                               THEN <<TipKey(p)>> ELSE <<>>
                /\ SameExcept(last.cd, cooldowns, {TipKey(p)})
                /\ last.keys # <<>> =>
                      /\ cooldowns[TipKey(p)] = last.now
                      /\ last.ret = Tip(c, p)
                /\ last.keys = <<>> => reminder_history = last.hist
           ELSE /\ last.keys = <<>> /\ last.calls = <<>>
                /\ cooldowns = last.cd
                /\ reminder_history = last.hist

\* C17 witness: 29 seconds after Raynor's early tip fired, Kerrigan's early
\* tip is refused.
C17_Witness ==
    /\ enable_notifications
    /\ last.op = "get_commander_tip"
    /\ last.args.commander_name = "Kerrigan" /\ last.args.game_phase = "early"
    /\ last.now = 29
    /\ last.cd = [k \in {"commander_tip_early"} |-> 0]
    /\ Len(last.hist) = 1 /\ last.hist[1].type = "Raynor Tip"
    /\ last.hist[1].timestamp = 0
    /\ last.keys = <<>>

WaveKeys == {WaveKey(i) : i \in 0..(Len(amon_attack_wave_intervals) - 1)}

\* C18: process_game_state on a snapshot whose mode is not 'coop', or that
\* carries no mode, returns no attack-wave advisory, makes no attack-wave
\* notification, leaves every amon_wave_* key as it was and adds no wave
\* entry to the history, whatever the elapsed time.
C18_WavesOnlyInCoop ==
    (last.op = "process_game_state" /\ last.args.mode # "coop") =>
        /\ Range(last.keys) \cap WaveKeys = {}
        /\ last.ret.attacks = <<>>
        /\ "Amon Attack Warning" \notin Range(last.calls)
        /\ SameExcept(last.cd, cooldowns, Keys \ WaveKeys)
        /\ \A n \in (Len(last.hist) + 1)..Len(reminder_history) :
              reminder_history[n].type # "Amon Attack Warning"

\* C18 witness: a snapshot without mode at 03:30, inside the warning window
\* of the first wave whose key never fired: no wave advisory.
C18_Witness ==
    /\ last.op = "process_game_state"
    /\ last.args.mode = None
    /\ InWarnWindow(amon_attack_wave_intervals[1] - GameTimeSeconds(last.args.game_time))
    /\ "amon_wave_0" \notin DOMAIN last.cd
    /\ "amon_wave_0" \notin DOMAIN cooldowns
    /\ last.ret.attacks = <<>>

\* what each category of a cycle fires when looked at on its own, from the
\* snapshot and the cooldown table the cycle found
IfOpen(k) == IF GateOpen(last.cd, k, last.now) THEN <<k>> ELSE <<>>

ExpectedSupply ==
    LET used == last.args.supply.supply_used
        cap == last.args.supply.supply_cap
    IN IF cap > 0 /\ 100 * used >= 95 * cap THEN IfOpen("supply_critical")
       ELSE IF cap > 0 /\ 100 * used >= 85 * cap THEN IfOpen("supply_warning")
       ELSE <<>>

ExpectedResources ==
    IF GameTimeSeconds(last.args.game_time) < 180 THEN <<>>
    ELSE (IF last.args.resources.minerals > 1000 THEN IfOpen("mineral_overflow") ELSE <<>>)
         \o (IF last.args.resources.gas > 1000 THEN IfOpen("gas_overflow") ELSE <<>>)

ExpectedUpgrades ==
    LET eligible == {t \in {300, 480, 720} :
                        /\ GameTimeSeconds(last.args.game_time) >= t
                        /\ GateOpen(last.cd, UpgradeKey(t), last.now)}
    IN IF eligible = {} THEN <<>>
       ELSE <<UpgradeKey(CHOOSE t \in eligible : \A u \in eligible : t <= u)>>

ExpectedWaves ==
    LET remaining(i) == amon_attack_wave_intervals[i + 1]
                        - GameTimeSeconds(last.args.game_time)
        due == {i \in 0..3 : /\ 0 < remaining(i) /\ remaining(i) <= 30
                             /\ GateOpen(last.cd, WaveKey(i), last.now)}
    IN IF last.args.mode = "coop" /\ due # {}
       THEN <<WaveKey(CHOOSE i \in due : \A j \in due : i <= j)>>
       ELSE <<>>

\* C19: in one process_game_state cycle every category fires exactly what
\* its own predicate and its own keys allow on the cooldown table the cycle
\* found, whatever the other categories emitted or suppressed, and the
\* advisories returned are sorted into their categories.
C19_CategoriesIndependent ==
    last.op = "process_game_state" =>
        /\ last.keys = ExpectedSupply \o ExpectedResources
                       \o ExpectedUpgrades \o ExpectedWaves
        /\ Len(last.ret.supply) = Len(ExpectedSupply)
        /\ Len(last.ret.resources) = Len(ExpectedResources)
        /\ Len(last.ret.upgrades) = Len(ExpectedUpgrades)
        /\ Len(last.ret.attacks) = Len(ExpectedWaves)

\* C19 witness: a fresh engine given supply 190/200, minerals 1500, gas 800
\* and game time 08:30 emits the supply-critical, the mineral-overflow and
\* the 300 s upgrade advisory in that one cycle.
C19_Witness ==
    /\ last.op = "process_game_state"
    /\ last.cd = EmptyTable /\ last.hist = <<>>
    /\ last.args.supply = [supply_used |-> 190, supply_cap |-> 200]
    /\ last.args.resources = [minerals |-> 1500, gas |-> 800]
    /\ last.args.game_time = <<"0", "8", ":", "3", "0">>
    /\ last.keys = <<"supply_critical", "mineral_overflow", "upgrade_300">>
    /\ Len(last.ret.supply) = 1 /\ Len(last.ret.resources) = 1
    /\ Len(last.ret.upgrades) = 1

IsPrefix(a, b) == Len(a) <= Len(b) /\ SubSeq(b, 1, Len(a)) = a

\* C20: every step of the engine (a check, process_game_state,
\* get_reminder_history, clear_cooldowns, the passing of time) leaves the
\* history it found as a prefix of the history it leaves: no record is
\* removed, reordered or rewritten.
C20_HistoryAppendOnly == [][IsPrefix(reminder_history, reminder_history')]_vars

\* C20 witness: a call appended to a history that already held a record,
\* and the records it found are still in front.
C20_Witness ==
    /\ last.op \in CheckOps \cup {"process_game_state"}
    /\ Len(last.hist) >= 1
    /\ Len(reminder_history) > Len(last.hist)
    /\ IsPrefix(last.hist, reminder_history)

RECURSIVE DigitsValue(_)
DigitsValue(t) ==
    IF Len(t) = 0 THEN 0
    ELSE LET c == t[Len(t)]
             front == SubSeq(t, 1, Len(t) - 1)
         IN IF c \in Digits THEN 10 * DigitsValue(front) + DigitVal(c)
            ELSE DigitsValue(front)

\* C22: analyze_supply parses the text of a captured supply region exactly
\* when it has one "/" with at least one digit on each side; the reading is
\* then the integers written by the digits of the two segments, returned
\* and cached; otherwise the cached pair is returned and the cache keeps it.
C22_RatioParsing ==
    (snap.op = "get_game_state" /\ snap.supply_img.captured) =>
        LET t == snap.supply_img.text
        IN IF HasRatio(t)
           THEN LET p == CHOOSE i \in 1..Len(t) : t[i] = "/"
                    pair == [supply_used |-> DigitsValue(SubSeq(t, 1, p - 1)),
                             supply_cap |-> DigitsValue(SubSeq(t, p + 1, Len(t)))]
                IN /\ snap.parsed.supply
                   /\ snap.state.supply = pair
                   /\ last_known_state.supply_used = pair.supply_used
                   /\ last_known_state.supply_cap = pair.supply_cap
           ELSE /\ ~snap.parsed.supply
                /\ snap.state.supply = [supply_used |-> snap.cache.supply_used,
                                        supply_cap |-> snap.cache.supply_cap]
                /\ last_known_state.supply_used = snap.cache.supply_used
                /\ last_known_state.supply_cap = snap.cache.supply_cap

\* C22 witness: "19O/20" read after "190/200": the letter is left out and
\* the pair (19, 20) replaces the cached (190, 200).
C22_Witness ==
    /\ snap.op = "get_game_state"
    /\ snap.supply_img = Image(<<"1", "9", "O", "/", "2", "0">>)
    /\ snap.cache.supply_used = 190 /\ snap.cache.supply_cap = 200
    /\ snap.state.supply = [supply_used |-> 19, supply_cap |-> 20]
    /\ last_known_state.supply_used = 19 /\ last_known_state.supply_cap = 20

\* one or two digits, a colon and two digits stand in t from position i on
TimerAt(t, i) ==
    \E m \in 1..2 :
        /\ i + m + 2 <= Len(t)
        /\ \A j \in i..(i + m - 1) : t[j] \in Digits
        /\ t[i + m] = ":" /\ t[i + m + 1] \in Digits /\ t[i + m + 2] \in Digits

\* C23: for a captured timer text that holds a D{1,2}:DD pattern,
\* analyze_game_time returns and caches the leftmost such substring, and
\* process_game_state's conversion of that display string splits it into
\* two integers and gives 60 * MM + SS.
C23_TimerRoundTrip ==
    (snap.op = "get_game_state" /\ snap.timer_img.captured
       /\ \E i \in 1..Len(snap.timer_img.text) : TimerAt(snap.timer_img.text, i)) =>
        LET t == snap.timer_img.text
            display == snap.state.game_time
            first == CHOOSE i \in 1..Len(t) :
                        TimerAt(t, i) /\ \A j \in 1..(i - 1) : ~TimerAt(t, j)
            colon == Len(display) - 2
            parts == Split(display, ":")
        IN /\ snap.parsed.timer
           /\ MatchesMMSS(display)
           /\ display = SubSeq(t, first, first + Len(display) - 1)
           /\ last_known_state.game_time = display
           /\ Len(parts) = 2 /\ PyInt(parts[1]).ok /\ PyInt(parts[2]).ok
           /\ GameTimeSeconds(display)
                 = 60 * DigitsValue(SubSeq(display, 1, colon - 1))
                   + DigitsValue(SubSeq(display, colon + 1, Len(display)))

\* C23 witness: "08:30 remaining" gives the display string "08:30", which
\* the engine converts to 510 seconds.
C23_Witness ==
    /\ snap.op = "get_game_state"
    /\ snap.timer_img = Image(<<"0", "8", ":", "3", "0", " ", "r", "e", "m", "a", "i",
                                "n", "i", "n", "g">>)
    /\ snap.state.game_time = <<"0", "8", ":", "3", "0">>
    /\ last_known_state.game_time = <<"0", "8", ":", "3", "0">>
    /\ GameTimeSeconds(snap.state.game_time) = 510

\* C24: the warnings of a snapshot are a function of the snapshot's own
\* supply and resource values: 'supply_block' iff supply_cap > 0 and
\* supply_used / supply_cap >= 0.90, 'minerals_overflow' iff minerals > 1000,
\* 'gas_overflow' iff gas > 1000, no other flag and no flag twice, whether
\* the values were read fresh, taken from the cache or defaulted.
C24_WarningsDetermined ==
    snap.op = "get_game_state" =>
        LET w == snap.state.warnings
            flags == Range(w)
            supply == snap.state.supply
            resources == snap.state.resources
        IN /\ "supply_block" \in flags <=>
                 (supply.supply_cap > 0 /\ supply.supply_used * 10 >= 9 * supply.supply_cap)
           /\ supply.supply_cap = 0 => "supply_block" \notin flags
           /\ "minerals_overflow" \in flags <=> resources.minerals > 1000
           /\ "gas_overflow" \in flags <=> resources.gas > 1000
           /\ flags \subseteq {"supply_block", "minerals_overflow", "gas_overflow"}
           /\ \A i, j \in 1..Len(w) : w[i] = w[j] => i = j

\* C24 witness: a fresh ratio of exactly 0.90 next to cached resources (the
\* resource text has a single digit run) whose gas is above 1000.
C24_Witness ==
    /\ snap.op = "get_game_state"
    /\ snap.supply_img = Image(<<"1", "8", "0", "/", "2", "0", "0">>)
    /\ snap.resource_img = Image(<<"1", "5", "0", "0">>)
    /\ ~snap.parsed.resources
    /\ snap.state.resources = [minerals |-> 800, gas |-> 1500]
    /\ snap.state.warnings = <<"supply_block", "gas_overflow">>

\* C25: get_game_state is idempotent: after a call, a second call with the
\* same three region inputs on the cache the first one left returns the
\* same snapshot and leaves the same cache, for parseable, unparseable and
\* absent regions and every cache the first call may have found.
C25_SynthesisIdempotent ==
    snap.op = "get_game_state" =>
        LET second == get_game_state(last_known_state, snap.resource_img,
                                     snap.supply_img, snap.timer_img)
        IN /\ second.state = snap.state
           /\ second.cache = last_known_state

\* C25 witness: from a populated cache, a call with a parseable resource
\* text, an unparseable supply text and no timer region, whose repetition
\* gives the same snapshot and cache.
C25_Witness ==
    /\ snap.op = "get_game_state"
    /\ snap.cache = [minerals |-> 12, gas |-> 34, supply_used |-> 190, supply_cap |-> 200,
                     game_time |-> <<"3", ":", "2", "0">>]
    /\ snap.resource_img = Image(<<"1", "5", "0", "0", " ", "8", "0", "0">>)
    /\ snap.supply_img = Image(<<"1", "9", "0", "/">>)
    /\ snap.timer_img = Absent
    /\ snap.state = [resources |-> [minerals |-> 1500, gas |-> 800],
                     supply |-> [supply_used |-> 190, supply_cap |-> 200],
                     game_time |-> <<"0", "0", ":", "0", "0">>,
                     warnings |-> <<"supply_block", "minerals_overflow">>]
    /\ get_game_state(last_known_state, snap.resource_img, snap.supply_img,
                      snap.timer_img).state = snap.state
    /\ last_known_state = [snap.cache EXCEPT !.minerals = 1500, !.gas = 800]

\* the positions where a run of digits starts, and the number a run writes
RunStarts(t) == {i \in 1..Len(t) : t[i] \in Digits /\ (i = 1 \/ t[i - 1] \notin Digits)}
RunValue(t, i) ==
    LET e == CHOOSE k \in i..Len(t) :
                /\ \A j \in i..k : t[j] \in Digits
                /\ (k = Len(t) \/ t[k + 1] \notin Digits)
    IN DigitsValue(SubSeq(t, i, e))

\* the (minerals, gas) pair one resource text gives: its first two runs
ResourceFrame(t) ==
    LET a == CHOOSE i \in RunStarts(t) : \A j \in RunStarts(t) : i <= j
        b == CHOOSE i \in RunStarts(t) \ {a} : \A j \in RunStarts(t) \ {a} : i <= j
    IN <<RunValue(t, a), RunValue(t, b)>>

\* the (supply_used, supply_cap) pair one ratio text gives
SupplyFrame(t) ==
    LET p == CHOOSE i \in 1..Len(t) : t[i] = "/"
    IN <<DigitsValue(SubSeq(t, 1, p - 1)), DigitsValue(SubSeq(t, p + 1, Len(t)))>>

ResourceFrames == {ResourceFrame(t) : t \in {u \in ResourceTexts : DigitRuns(u) >= 2}}
SupplyFrames == {SupplyFrame(t) : t \in {u \in SupplyTexts : HasRatio(u)}}

\* the text has one "/" with digits on exactly one side of it
HalfRatio(t) ==
    /\ Cardinality({i \in 1..Len(t) : t[i] = "/"}) = 1
    /\ ~HasRatio(t)
    /\ \E i \in 1..Len(t) : t[i] \in Digits

\* C27: in every state the cached (minerals, gas) pair is the initial pair
\* or the pair of one single resource text, and the cached (supply_used,
\* supply_cap) pair is the initial pair or the pair of one single ratio
\* text; a call whose resource text has a single digit run, or whose supply
\* text has digits on one side of the "/" only, changes neither half.
C27_PairsCachedAtomically ==
    /\ <<last_known_state.minerals, last_known_state.gas>>
          \in {<<InitialCache.minerals, InitialCache.gas>>} \cup ResourceFrames
    /\ <<last_known_state.supply_used, last_known_state.supply_cap>>
          \in {<<InitialCache.supply_used, InitialCache.supply_cap>>} \cup SupplyFrames
    /\ (snap.op = "get_game_state" /\ snap.resource_img.captured
          /\ DigitRuns(snap.resource_img.text) = 1) =>
           /\ last_known_state.minerals = snap.cache.minerals
           /\ last_known_state.gas = snap.cache.gas
    /\ (snap.op = "get_game_state" /\ snap.supply_img.captured
          /\ HalfRatio(snap.supply_img.text)) =>
           /\ last_known_state.supply_used = snap.cache.supply_used
           /\ last_known_state.supply_cap = snap.cache.supply_cap

\* C27 witness: a cache holding the pairs of "12 34" and "19O/20" is left
\* as it was by a call that reads "1500" and "190/".
C27_Witness ==
    /\ snap.op = "get_game_state"
    /\ snap.resource_img = Image(<<"1", "5", "0", "0">>)
    /\ snap.supply_img = Image(<<"1", "9", "0", "/">>)
    /\ snap.cache.minerals = 12 /\ snap.cache.gas = 34
    /\ snap.cache.supply_used = 19 /\ snap.cache.supply_cap = 20
    /\ last_known_state.minerals = 12 /\ last_known_state.gas = 34
    /\ last_known_state.supply_used = 19 /\ last_known_state.supply_cap = 20

\* the triggering predicate of key k, by category, on the values a call is
\* given
SupplyHolds(k, used, cap) ==
    /\ cap > 0
    /\ \/ k = "supply_critical" /\ 100 * used >= 95 * cap
       \/ k = "supply_warning" /\ 100 * used >= 85 * cap

ResourceHolds(k, minerals, gas, seconds) ==
    /\ seconds >= 180
    /\ \/ k = "mineral_overflow" /\ minerals > 1000
       \/ k = "gas_overflow" /\ gas > 1000

UpgradeHolds(k, seconds) ==
    \E t \in {300, 480, 720} : k = UpgradeKey(t) /\ seconds >= t

WaveHolds(k, seconds) ==
    \E i \in 0..3 :
        /\ k = WaveKey(i)
        /\ 0 < amon_attack_wave_intervals[i + 1] - seconds
        /\ amon_attack_wave_intervals[i + 1] - seconds <= 30

\* the keys whose triggering predicate holds in a cycle that is given the
\* record a and reads the elapsed time seconds from it
CycleHolding(a, seconds) ==
    {k \in {"supply_critical", "supply_warning"} :
        SupplyHolds(k, a.supply.supply_used, a.supply.supply_cap)}
    \cup {k \in {"mineral_overflow", "gas_overflow"} :
             ResourceHolds(k, a.resources.minerals, a.resources.gas, seconds)}
    \cup {k \in UpgradeKeys : UpgradeHolds(k, seconds)}
    \cup {k \in WaveKeys : a.mode = "coop" /\ WaveHolds(k, seconds)}

\* the keys whose triggering predicate holds for the arguments of the last
\* call
Holding ==
    LET a == last.args
    IN CASE last.op = "check_supply" ->
              {k \in {"supply_critical", "supply_warning"} :
                  SupplyHolds(k, a.supply_used, a.supply_cap)}
         [] last.op = "check_resources" ->
              {k \in {"mineral_overflow", "gas_overflow"} :
                  ResourceHolds(k, a.minerals, a.gas, a.game_time_seconds)}
         [] last.op = "check_upgrade_timing" ->
              {k \in UpgradeKeys : UpgradeHolds(k, a.game_time_seconds)}
         [] last.op = "check_amon_attack_wave" ->
              {k \in WaveKeys : WaveHolds(k, a.game_time_seconds)}
         [] last.op \in {"check_worker_production", "get_commander_tip"} -> Triggered
         [] last.op = "process_game_state" ->
              UNION {CycleHolding(a, seconds) : seconds \in {GameTimeSeconds(a.game_time)}}
         [] OTHER -> {}

\* C28: a check or a cycle leaves the cooldown entry of every key whose
\* triggering predicate is false for its arguments as it found it: absent
\* if it was absent, with the same time if it was present.  Every entry
\* created, changed or removed belongs to a key whose predicate holds.
C28_IneligibleLeavesCooldown ==
    last.op \in CheckOps \cup {"process_game_state"} =>
        LET written == {k \in (DOMAIN cooldowns) \cup (DOMAIN last.cd) :
                          \/ k \notin DOMAIN cooldowns
                          \/ k \notin DOMAIN last.cd
                          \/ cooldowns[k] # last.cd[k]}
        IN written # {} => written \subseteq Holding

\* C28 witness: the supply warning fired at 0; at 30, when its gate stands
\* open again, a check with 169/200 (below 0.85) leaves its entry at 0.
C28_Witness ==
    /\ last.op = "check_supply"
    /\ last.args = [supply_used |-> 169, supply_cap |-> 200]
    /\ last.now = 30
    /\ "supply_warning" \in DOMAIN last.cd /\ last.cd["supply_warning"] = 0
    /\ GateOpen(last.cd, "supply_warning", last.now)
    /\ last.keys = <<>>
    /\ cooldowns = last.cd

\* the emissions of the supply-critical advisory, and the time of the last
SupplyFirings == {i \in 1..Len(emitted) : emitted[i][1] = "supply_critical"}
LastSupplyFiring ==
    emitted[CHOOSE i \in SupplyFirings : \A j \in SupplyFirings : j <= i][2]

====
